---- MODULE Spec2Model ----
(***************************************************************************)
(* A model of scrapezillow/scraper.py: the input validator, the fetcher,   *)
(* the field extractors, the ajax history fetcher and the orchestrator     *)
(* scrape_url.                                                             *)
(*                                                                         *)
(* Text is modelled by TLA+ strings and the Python string and regular      *)
(* expression operations by operators that work on them character by       *)
(* character.  Python values kept in the dictionaries are tagged records:  *)
(* None, Str(s), List(l), Dict(d), Dec(n) (a Decimal, counted in           *)
(* millionths) and Time(d) (now minus d days), so that values of different *)
(* Python types can be compared.                                           *)
(***************************************************************************)
EXTENDS Integers, Sequences, FiniteSets, TLC

(***************************************************************************)
(* Python values                                                           *)
(***************************************************************************)
None == [none |-> TRUE]
Str(s) == [str |-> s]
List(l) == [list |-> l]
Dict(d) == [dict |-> d]
Dec(n) == [micro |-> n]
Time(d) == [days_ago |-> d]

IsNone(v) == v = None

\* an exception raised and not caught inside the function modelled
Raise(e) == [raise |-> e]
Ok(v) == [ok |-> v]
Raised(r) == "raise" \in DOMAIN r

\* d[k] = v on a Python dict, modelled as a function on its set of keys
DictSet(d, k, v) == [x \in DOMAIN d \cup {k} |-> IF x = k THEN v ELSE d[x]]
\* d.update(**e)
DictUpdate(d, e) == [x \in DOMAIN d \cup DOMAIN e |-> IF x \in DOMAIN e THEN e[x] ELSE d[x]]
EmptyDict == [x \in {} |-> None]

(***************************************************************************)
(* Characters and strings                                                  *)
(***************************************************************************)
Digit == {"0", "1", "2", "3", "4", "5", "6", "7", "8", "9"}
Upper == {"A", "B", "C", "D", "E", "F", "G", "H", "I", "J", "K", "L", "M",
          "N", "O", "P", "Q", "R", "S", "T", "U", "V", "W", "X", "Y", "Z"}
Lowercase == {"a", "b", "c", "d", "e", "f", "g", "h", "i", "j", "k", "l", "m",
              "n", "o", "p", "q", "r", "s", "t", "u", "v", "w", "x", "y", "z"}
\* \w of the re module
WordChar == Digit \cup Upper \cup Lowercase \cup {"_"}
\* what str.strip() removes
Space == {" ", "\n", "\t"}

Char(s, i) == SubSeq(s, i, i)

\* s[i:] starts with p (i counted from 1)
StartsWithAt(s, i, p) == i >= 1 /\ i + Len(p) - 1 <= Len(s) /\ SubSeq(s, i, i + Len(p) - 1) = p

\* past an optional occurrence of the character c at j (the c? of a pattern)
SkipChar(s, j, c) == IF StartsWithAt(s, j, c) THEN j + 1 ELSE j

\* p in s
Contains(s, p) == \E i \in 1..(Len(s) - Len(p) + 1) : StartsWithAt(s, i, p)

\* s.index(p, i) counted from 1, 0 when p is not in s[i:]
RECURSIVE FindFrom(_, _, _)
FindFrom(s, p, i) ==
    IF i + Len(p) - 1 > Len(s) THEN 0
    ELSE IF StartsWithAt(s, i, p) THEN i
    ELSE FindFrom(s, p, i + 1)
Find(s, p) == FindFrom(s, p, 1)

\* the end of the longest run of characters of class C that starts at i (i - 1 when empty)
RECURSIVE RunEnd(_, _, _)
RunEnd(s, i, C) == IF i <= Len(s) /\ Char(s, i) \in C THEN RunEnd(s, i + 1, C) ELSE i - 1

\* s.split(sep), sep not empty
RECURSIVE Split(_, _)
Split(s, sep) ==
    LET i == Find(s, sep) IN
    IF i = 0 THEN <<s>>
    ELSE <<SubSeq(s, 1, i - 1)>> \o Split(SubSeq(s, i + Len(sep), Len(s)), sep)

\* s.replace(a, b), a not empty
RECURSIVE Replace(_, _, _)
Replace(s, a, b) ==
    LET i == Find(s, a) IN
    IF i = 0 THEN s
    ELSE SubSeq(s, 1, i - 1) \o b \o Replace(SubSeq(s, i + Len(a), Len(s)), a, b)

\* s.lstrip(chars), s.rstrip(chars), s.strip(chars)
RECURSIVE LStrip(_, _)
LStrip(s, C) == IF Len(s) > 0 /\ Char(s, 1) \in C THEN LStrip(SubSeq(s, 2, Len(s)), C) ELSE s
RECURSIVE RStrip(_, _)
RStrip(s, C) == IF Len(s) > 0 /\ Char(s, Len(s)) \in C THEN RStrip(SubSeq(s, 1, Len(s) - 1), C) ELSE s
StripChars(s, C) == RStrip(LStrip(s, C), C)
Strip(s) == StripChars(s, Space)

LowerChar(c) ==
    CASE c = "A" -> "a" [] c = "B" -> "b" [] c = "C" -> "c" [] c = "D" -> "d"
      [] c = "E" -> "e" [] c = "F" -> "f" [] c = "G" -> "g" [] c = "H" -> "h"
      [] c = "I" -> "i" [] c = "J" -> "j" [] c = "K" -> "k" [] c = "L" -> "l"
      [] c = "M" -> "m" [] c = "N" -> "n" [] c = "O" -> "o" [] c = "P" -> "p"
      [] c = "Q" -> "q" [] c = "R" -> "r" [] c = "S" -> "s" [] c = "T" -> "t"
      [] c = "U" -> "u" [] c = "V" -> "v" [] c = "W" -> "w" [] c = "X" -> "x"
      [] c = "Y" -> "y" [] c = "Z" -> "z" [] OTHER -> c
\* s.lower()
RECURSIVE Lower(_)
Lower(s) == IF Len(s) = 0 THEN "" ELSE LowerChar(Char(s, 1)) \o Lower(SubSeq(s, 2, Len(s)))

DigitValue(c) ==
    CASE c = "0" -> 0 [] c = "1" -> 1 [] c = "2" -> 2 [] c = "3" -> 3 [] c = "4" -> 4
      [] c = "5" -> 5 [] c = "6" -> 6 [] c = "7" -> 7 [] c = "8" -> 8 [] c = "9" -> 9
\* the value of a string of digits
RECURSIVE DigitsValue(_)
DigitsValue(s) ==
    IF Len(s) = 0 THEN 0
    ELSE 10 * DigitsValue(SubSeq(s, 1, Len(s) - 1)) + DigitValue(Char(s, Len(s)))

\* int(s) and Decimal(s) accept an integer literal: blanks around an optional sign and digits.
\* (The texts of the model hold integer literals or words; fractions and exponents do not occur.)
IsIntLiteral(s) ==
    LET t == Strip(s)
        u == IF Len(t) > 0 /\ Char(t, 1) \in {"-", "+"} THEN SubSeq(t, 2, Len(t)) ELSE t
    IN Len(u) > 0 /\ RunEnd(u, 1, Digit) = Len(u)
IntValue(s) ==
    LET t == Strip(s) IN
    IF Char(t, 1) = "-" THEN 0 - DigitsValue(SubSeq(t, 2, Len(t)))
    ELSE IF Char(t, 1) = "+" THEN DigitsValue(SubSeq(t, 2, Len(t)))
    ELSE DigitsValue(t)

\* the least element of a non-empty set of integers
Min(S) == CHOOSE x \in S : \A y \in S : x <= y

(***************************************************************************)
(* scrapezillow/constants.py                                               *)
(***************************************************************************)
ZILLOW_URL == "http://www.zillow.com"
ZILLOW_HOMES_URL == "http://www.zillow.com/homes/"
HOME_TYPES == {"Condo", "Single Family", "Multi Family", "Apartment"}

\* http.client.OK
OK == 200

(***************************************************************************)
(* validate_scraper_input                                                  *)
(***************************************************************************)
\* truth value of an optional string argument
Truthy(v) == ~IsNone(v) /\ v.str # ""

\* urljoin(ZILLOW_URL, path) for a base without a path and a relative path
urljoin(base, path) == base \o "/" \o path

HomesMarker == "homes"

\* validate_scraper_input without the check of lines 151 to 155
validate_scraper_input_no_marker(url, zpid) ==
    IF Truthy(url) /\ Truthy(zpid) THEN Raise("ValueError")
    ELSE IF ~Truthy(url) /\ ~Truthy(zpid) THEN Raise("ValueError")
    ELSE IF Truthy(url) THEN Ok(url.str)
    ELSE Ok(urljoin(ZILLOW_URL, "homes/" \o zpid.str \o "_zpid/(index)/"))

validate_scraper_input(url, zpid) ==
    IF Truthy(url) /\ Truthy(zpid) THEN Raise("ValueError")
    ELSE IF ~Truthy(url) /\ ~Truthy(zpid) THEN Raise("ValueError")
    ELSE IF Truthy(url) /\ ~Contains(url.str, HomesMarker) THEN Raise("ValueError")
    ELSE IF Truthy(url) THEN Ok(url.str)
    ELSE Ok(urljoin(ZILLOW_URL, "homes/" \o zpid.str \o "_zpid/(index)/"))

(***************************************************************************)
(* get_raw_html                                                            *)
(***************************************************************************)
\* get_raw_html without the elif of lines 137 to 141
get_raw_html_no_redirect(response) ==
    IF "timeout" \in DOMAIN response THEN Raise("RequestException")
    ELSE IF response.status_code # OK THEN Raise("Exception")
    ELSE Ok(response.content)

\* response: what request_class.get returned, or [timeout |-> TRUE] when it raised
get_raw_html(response) ==
    IF "timeout" \in DOMAIN response THEN Raise("RequestException")
    ELSE IF response.status_code # OK THEN Raise("Exception")
    ELSE IF response.url = ZILLOW_HOMES_URL THEN Raise("Exception")
    ELSE Ok(response.content)

(***************************************************************************)
(* Regular expressions of the extractors, as the re module evaluates them  *)
(***************************************************************************)
\* re.findall(r"([C]+)suffix", s): the first match, None when there is none.  The first
\* character of suffix is outside C, so a match that starts at i ends with the run at i.
RunFrom(s, i, C) == Str(SubSeq(s, i, RunEnd(s, i, C)))
RunIn(s, starts, C) == IF starts = {} THEN None ELSE RunFrom(s, Min(starts), C)
FirstRunBefore(s, C, suffix) ==
    RunIn(s, {i \in 1..Len(s) : Char(s, i) \in C /\ StartsWithAt(s, RunEnd(s, i, C) + 1, suffix)}, C)

\* re.findall(r"prefix([C]+)", s): the first match, None when there is none
RunAfterIn(s, starts, n, C) == IF starts = {} THEN None ELSE RunFrom(s, Min(starts) + n, C)
FirstRunAfter(s, prefix, C) ==
    RunAfterIn(s, {i \in 1..Len(s) : StartsWithAt(s, i, prefix) /\ RunEnd(s, i + Len(prefix), C) >= i + Len(prefix)},
               Len(prefix), C)

\* t matches (?:[A-Z]\w+ ?){1,} as a whole: words of two or more word characters that
\* start with a capital, one blank at most after each
IsCapWord(w) == Len(w) >= 2 /\ Char(w, 1) \in Upper /\ RunEnd(w, 1, WordChar) = Len(w)
IsCapWords(t) ==
    LET words == Split(t, " ") IN
    /\ \A k \in 1..(Len(words) - 1) : IsCapWord(words[k])
    /\ \/ IsCapWord(words[Len(words)])
       \/ Len(words) >= 2 /\ words[Len(words)] = ""

\* where ((?:[A-Z]\w+ ?){1,}), [A-Z]{2} matches from i, the index of its comma; 0 when it
\* does not match from i.  The words hold no comma, so they end at the first character
\* after i that is neither a word character nor a blank.
CityCommaAt(s, i) ==
    LET j == RunEnd(s, i, WordChar \cup {" "}) + 1 IN
    IF /\ Char(s, i) \in Upper
       /\ IsCapWords(SubSeq(s, i, j - 1))
       /\ StartsWithAt(s, j, ", ")
       /\ j + 3 <= Len(s)
       /\ Char(s, j + 2) \in Upper
       /\ Char(s, j + 3) \in Upper
    THEN j ELSE 0

CityStarts(s) == {i \in 1..Len(s) : CityCommaAt(s, i) > 0}

\* re.findall(r"((?:[A-Z]\w+ ?){1,}), [A-Z]{2}", s)[0]
CityFrom(s, i) == Str(SubSeq(s, i, CityCommaAt(s, i) - 1))
CityIn(s, starts) == IF starts = {} THEN None ELSE CityFrom(s, Min(starts))
FindCity(s) == CityIn(s, CityStarts(s))

\* re.findall(r"(?:[A-Z]\w+ ?){1,}, ([A-Z]{2})", s)[0]
StateAfter(s, j) == Str(SubSeq(s, j + 2, j + 3))
StateIn(s, starts) == IF starts = {} THEN None ELSE StateAfter(s, CityCommaAt(s, Min(starts)))
FindState(s) == StateIn(s, CityStarts(s))

\* re.findall(r"[A-Z]{2} (\d{5}-?(?:\d{4})?)", s)[0]
\* (?:\d{4})? from j on: the index of the last character matched
ZipPlus4(s, j) == IF RunEnd(s, j, Digit) >= j + 3 THEN j + 3 ELSE j - 1
\* (\d{5}-?(?:\d{4})?) from a on
ZipFrom(s, a) == Str(SubSeq(s, a, ZipPlus4(s, SkipChar(s, a + 5, "-"))))
ZipIn(s, starts) == IF starts = {} THEN None ELSE ZipFrom(s, Min(starts) + 3)
FindZipcode(s) ==
    ZipIn(s, {i \in 1..Len(s) :
                /\ i + 7 <= Len(s)
                /\ Char(s, i) \in Upper /\ Char(s, i + 1) \in Upper /\ Char(s, i + 2) = " "
                /\ RunEnd(s, i + 3, Digit) >= i + 7})

(***************************************************************************)
(* The parsed page (the BeautifulSoup tree, as far as the scraper reads it)*)
(*   prop_summary  None, or Str of the text of div.PROP_SUMMARY_CLASS      *)
(*   description   None, or Str of the text of div.DESCRIPTION             *)
(*   fact_groups   the ul.FACT_GROUPING lists, each the texts of its li    *)
(*   home_value    None, or List of the texts of the home-summary-row rows *)
(*                 of div#HOME_VALUE                                       *)
(*   zest_titles, zest_values  the texts of div.zest-title, div.zest-value *)
(*   photos        the img of ol.photos: records with href and src         *)
(*   marker        None, or [comment |-> None or Str(text)]: homeMarkerData*)
(*   coordinates   None, or the attrs of #hdp-map-coordinates              *)
(*   text          soup.text, where the ajax descriptors are searched      *)
(***************************************************************************)

\* _check_for_null_result
_check_for_null_result(result) == IF IsNone(result) THEN Raise("NullResultException") ELSE Ok(result)

\* _get_property_summary
_get_property_summary(soup) ==
    IF Raised(_check_for_null_result(soup.prop_summary)) THEN Raise("NullResultException")
    ELSE LET prop_summary == soup.prop_summary.str IN
         Ok([bedrooms  |-> FirstRunBefore(prop_summary, Digit \cup {"."}, " bed"),
             bathrooms |-> FirstRunBefore(prop_summary, Digit \cup {"."}, " bath"),
             sqft      |-> FirstRunBefore(prop_summary, Digit \cup {",", "."}, " sqft"),
             city      |-> FindCity(prop_summary),
             state     |-> FindState(prop_summary),
             zipcode   |-> FindZipcode(prop_summary)])

\* _get_description
_get_description(soup) ==
    IF Raised(_check_for_null_result(soup.description)) THEN Raise("NullResultException")
    ELSE Ok(soup.description)

\* filter(None, l): the truthy elements of a list of optional strings
RECURSIVE FilterNone(_)
FilterNone(l) ==
    IF l = <<>> THEN <<>>
    ELSE (IF Truthy(Head(l)) THEN <<Head(l)>> ELSE <<>>) \o FilterNone(Tail(l))

\* _get_photos
_get_photos(soup) ==
    List(FilterNone([k \in 1..Len(soup.photos) |->
            IF ~IsNone(soup.photos[k].href) THEN soup.photos[k].href ELSE soup.photos[k].src]))

\* _get_fact_list
RECURSIVE Flatten(_)
Flatten(groups) == IF groups = <<>> THEN <<>> ELSE Head(groups) \o Flatten(Tail(groups))
_get_fact_list(soup) == Flatten(soup.fact_groups)

(***************************************************************************)
(* _parse_facts                                                            *)
(***************************************************************************)
\* re.sub("( #|# )", "", s)
RECURSIVE SubHash(_)
SubHash(s) ==
    IF Len(s) = 0 THEN ""
    ELSE IF StartsWithAt(s, 1, " #") \/ StartsWithAt(s, 1, "# ") THEN SubHash(SubSeq(s, 3, Len(s)))
    ELSE Char(s, 1) \o SubHash(SubSeq(s, 2, Len(s)))

\* the branch of the if/elif chain that the text of a fact takes
FactRule(text) ==
    IF text \in HOME_TYPES THEN "home_type"
    ELSE IF Contains(text, "Built in") THEN "year"
    ELSE IF Contains(text, "days on Zillow") THEN "days_on_zillow"
    ELSE IF Len(Split(text, ":")) = 1 THEN "extras"
    ELSE IF Contains(text, "Posted") THEN "posted"
    ELSE "generic"

\* the key a generic key: value fact is stored under
FactKey(text) == Lower(Replace(Strip(Split(SubHash(text), ":")[1]), " ", "_"))

\* one iteration of the loop of _parse_facts: the dictionary after it, or the exception
ParseFact(parsed_facts, text) ==
    LET rule == FactRule(text) IN
    IF rule = "home_type" THEN Ok(DictSet(parsed_facts, "home_type", Str(text)))
    ELSE IF rule = "year" THEN
        LET found == FirstRunAfter(text, "Built in ", Digit) IN
        IF IsNone(found) THEN Raise("IndexError") ELSE Ok(DictSet(parsed_facts, "year", found))
    ELSE IF rule = "days_on_zillow" THEN
        LET found == FirstRunBefore(text, Digit, " days") IN
        IF IsNone(found) THEN Raise("IndexError") ELSE Ok(DictSet(parsed_facts, "days_on_zillow", found))
    ELSE IF rule = "extras" THEN
        IF "extras" \notin DOMAIN parsed_facts THEN Ok(DictSet(parsed_facts, "extras", List(<<Str(text)>>)))
        ELSE IF "list" \notin DOMAIN parsed_facts["extras"] THEN Raise("AttributeError")
        ELSE Ok(DictSet(parsed_facts, "extras", List(Append(parsed_facts["extras"].list, Str(text)))))
    ELSE IF rule = "posted" THEN
        LET days == Split(Strip(Split(SubHash(text), ":")[2]), " ")[1] IN
        IF ~IsIntLiteral(days) THEN Raise("ValueError")
        ELSE Ok(DictSet(parsed_facts, "posted", Time(IntValue(days))))
    ELSE Ok(DictSet(parsed_facts, FactKey(text), Str(Strip(Split(SubHash(text), ":")[2]))))

\* the loop of _parse_facts from the state r on
RECURSIVE ParseFactsFrom(_, _)
ParseFactsFrom(r, facts) ==
    IF Raised(r) \/ facts = <<>> THEN r
    ELSE ParseFactsFrom(ParseFact(r.ok, Head(facts)), Tail(facts))

_parse_facts(facts) == ParseFactsFrom(Ok(EmptyDict), facts)

(***************************************************************************)
(* _get_sale_info                                                          *)
(***************************************************************************)
PricingLabels == <<"Foreclosure Estimate", "Below Zestimate", "Rent Zestimate", "Zestimate",
                   "Sold on", "Sold", "Price cut">>
StatusLabels == <<"For Sale", "Auction", "Make Me Move", "For Rent", "Pre-Foreclosure", "Off Market">>

\* stands for the registered sign \xae, which the strings of the model cannot hold
RegisteredSign == "@"

\* [\d,\/\w]
PricingChar == WordChar \cup {",", "/"}

\* (?:\xae)?:?[\n ]+-?\$?([\d,\/\w]+) from j on: where the group starts and ends,
\* <<>> when there is no match.  No step can be taken in two ways that both go on.
\* -?\$?([\d,\/\w]+) from j on
PricingGroup(s, j) == IF RunEnd(s, j, PricingChar) >= j THEN <<j, RunEnd(s, j, PricingChar)>> ELSE <<>>
\* [\n ]+ and the rest from j on
PricingBlanks(s, j) ==
    IF RunEnd(s, j, {"\n", " "}) >= j
    THEN PricingGroup(s, SkipChar(s, SkipChar(s, RunEnd(s, j, {"\n", " "}) + 1, "-"), "$"))
    ELSE <<>>
PricingTail(s, j) == PricingBlanks(s, SkipChar(s, SkipChar(s, j, RegisteredSign), ":"))

PricingAt(s, i, k) ==
    StartsWithAt(s, i, PricingLabels[k]) /\ PricingTail(s, i + Len(PricingLabels[k])) # <<>>

\* re.findall(pricing_re, text): <<label, amount>> of the first match, <<>> when none.
\* The first match is the leftmost, and there the first alternative that matches.
\* the match of alternative k at i: <<label, amount>>
PricingMatch(text, i, k) ==
    <<PricingLabels[k], SubSeq(text, PricingTail(text, i + Len(PricingLabels[k]))[1],
                                     PricingTail(text, i + Len(PricingLabels[k]))[2])>>
\* the match at i, where some alternative matches
PricingMatchAt(text, i) ==
    PricingMatch(text, i, Min({n \in 1..Len(PricingLabels) : PricingAt(text, i, n)}))
PricingMatchIn(text, starts) == IF starts = {} THEN <<>> ELSE PricingMatchAt(text, Min(starts))
FindPricing(text) ==
    PricingMatchIn(text, {i \in 1..Len(text) : \E k \in 1..Len(PricingLabels) : PricingAt(text, i, k)})

\* re.findall(status_re, text): the first match, "" when none
StatusAt(text, i) == StatusLabels[Min({n \in 1..Len(StatusLabels) : StartsWithAt(text, i, StatusLabels[n])})]
StatusIn(text, starts) == IF starts = {} THEN "" ELSE StatusAt(text, Min(starts))
FindStatus(text) ==
    StatusIn(text, {i \in 1..Len(text) : \E k \in 1..Len(StatusLabels) : StartsWithAt(text, i, StatusLabels[k])})

\* re.findall(r"\$?([\d,]+)", text): the first match, None when none
FindAmount(text) == FirstRunAfter(text, "", Digit \cup {","})

\* pricing[0][0].strip().replace(" ", "_").lower()
PricingKey(label) == Lower(Replace(Strip(label), " ", "_"))

\* one iteration of the loop over summary_rows
\* the if/elif chain with the status pattern tried first
SaleBranch_status_first(sale_info, pricing, status, amount) ==
    IF status # "" THEN DictSet(sale_info, "status", Str(status))
    ELSE IF pricing # <<>> THEN DictSet(sale_info, PricingKey(pricing[1]), Str(pricing[2]))
    ELSE IF ~IsNone(amount) THEN DictSet(sale_info, "price", amount)
    ELSE sale_info

\* the if/elif chain of the loop body, on the findings of the three patterns
SaleBranch(sale_info, pricing, status, amount) ==
    IF pricing # <<>> THEN DictSet(sale_info, PricingKey(pricing[1]), Str(pricing[2]))
    ELSE IF status # "" THEN DictSet(sale_info, "status", Str(status))
    ELSE IF ~IsNone(amount) THEN DictSet(sale_info, "price", amount)
    ELSE sale_info
SaleRow(sale_info, text) == SaleBranch(sale_info, FindPricing(text), FindStatus(text), FindAmount(text))

RECURSIVE SaleRows(_, _)
SaleRows(sale_info, rows) ==
    IF rows = <<>> THEN sale_info ELSE SaleRows(SaleRow(sale_info, Head(rows)), Tail(rows))

\* one iteration of the loop over zestimates_titles (i counted from 1)
ZestTitle(r, soup, i) ==
    IF ~Contains(soup.zest_titles[i], "rent") THEN r
    ELSE IF i > Len(soup.zest_values) THEN Raise("IndexError")
    ELSE IF IsNone(FindAmount(soup.zest_values[i])) THEN Raise("IndexError")
    ELSE Ok(DictSet(r.ok, "rent_zestimate", FindAmount(soup.zest_values[i])))

RECURSIVE ZestTitlesFrom(_, _, _)
ZestTitlesFrom(r, soup, i) ==
    IF Raised(r) \/ i > Len(soup.zest_titles) THEN r
    ELSE ZestTitlesFrom(ZestTitle(r, soup, i), soup, i + 1)

NewSaleInfo == [price |-> None, status |-> None, zestimate |-> None, rent_zestimate |-> None]

_get_sale_info(soup) ==
    IF IsNone(soup.home_value) THEN Raise("AttributeError")
    ELSE ZestTitlesFrom(Ok(SaleRows(NewSaleInfo, soup.home_value.list)), soup, 1)

(***************************************************************************)
(* _get_location_data                                                      *)
(***************************************************************************)
\* truth value of a coordinate: None and Decimal zero are false
CoordTruthy(v) == ~IsNone(v) /\ v # Dec(0)

\* the try block of the primary path, on the tokens of the comment:
\* <<lat, lon>>, <<None, None>> when it raised
PrimaryCoordinates(parsed_comments) ==
    LET n == Len(parsed_comments) IN
    IF n < 2 THEN <<None, None>>
    ELSE LET lon_str == Replace(parsed_comments[n], "\\", "") IN
         IF IsIntLiteral(parsed_comments[n - 1]) /\ IsIntLiteral(lon_str)
         THEN <<Dec(IntValue(parsed_comments[n - 1])), Dec(IntValue(lon_str))>>
         ELSE <<None, None>>

\* urllib.parse.unquote, for the escapes that occur in the texts of the model
Unquote(s) == Replace(Replace(Replace(s, "%2C", ","), "%20", " "), "%26", "&")

\* the try block that recovers the address: None when it raised
DirectionAddress(elem) ==
    IF IsNone(elem) \/ "data-direction" \notin DOMAIN elem.dict THEN None
    ELSE LET addr_url == Unquote(elem.dict["data-direction"])
             a == Find(addr_url, "addr=")
             rest == SubSeq(addr_url, a + 5, Len(addr_url))
             b == Find(rest, "&")
             addr == Replace(Replace(SubSeq(rest, 1, b - 1), "+", " "), " ,", ", ")
         IN IF a = 0 \/ b = 0 \/ Len(addr) < 5 THEN None
            ELSE IF Char(addr, Len(addr) - 4) = "-" THEN Str(SubSeq(addr, 1, Len(addr) - 5))
            ELSE Str(addr)

\* location_data_elem.attrs[name]
ElemAttr(elem, name) ==
    IF IsNone(elem) THEN Raise("AttributeError")
    ELSE IF name \notin DOMAIN elem.dict THEN Raise("KeyError")
    ELSE Ok(Str(elem.dict[name]))

\* the coordinate after the fallback stage: read from the element when it is false
Fallback(coord, elem, name) == IF ~CoordTruthy(coord) THEN ElemAttr(elem, name) ELSE Ok(coord)

\* lines 166 to 179: <<lat, lon>> after the primary stage, or the exception it lets out
LocationPrimary(soup) ==
    IF IsNone(soup.marker) THEN Ok(<<None, None>>)
    ELSE IF IsNone(soup.marker.comment) THEN Raise("AttributeError")
    ELSE Ok(PrimaryCoordinates(Split(StripChars(StripChars(soup.marker.comment.str, {"["}), {"]"}), ",")))

\* the record the function returns, unless reading a coordinate raised
LocationRecord(latitude, longitude, address) ==
    IF Raised(latitude) THEN latitude
    ELSE IF Raised(longitude) THEN longitude
    ELSE Ok([latitude |-> latitude.ok, longitude |-> longitude.ok, address |-> address])

\* lines 181 to 197, from the coordinates of the primary stage
LocationFallback(soup, primary_lat, primary_lon) ==
    LocationRecord(Fallback(primary_lat, soup.coordinates, "data-latitude"),
                   Fallback(primary_lon, soup.coordinates, "data-longitude"),
                   DirectionAddress(soup.coordinates))

LocationStages(soup, primary) ==
    IF Raised(primary) THEN primary ELSE LocationFallback(soup, primary.ok[1], primary.ok[2])

_get_location_data(soup) == LocationStages(soup, LocationPrimary(soup))

(***************************************************************************)
(* The ajax history fetcher                                                *)
(***************************************************************************)
PriceLabel == "z-hdp-price-history"
TaxLabel == "z-expando-table"

\* [\w\-_~=]
EncChar == WordChar \cup {"-", "~", "="}

\* where the pattern of _get_ajax_url matches from i, the end of its group; 0 when it does not
AjaxGroupEnd(text, i, label) ==
    LET a == i + Len("/AjaxRender")
        b == RunEnd(text, a + 1 + Len("htm?encparams="), EncChar)
        c == RunEnd(text, b + 1 + Len("&rwebid="), Digit)
        d == c + Len("&rhost=") + 1
    IN IF /\ StartsWithAt(text, i, "/AjaxRender")
          /\ a <= Len(text) /\ Char(text, a) # "\n"
          /\ StartsWithAt(text, a + 1, "htm?encparams=")
          /\ b >= a + 1 + Len("htm?encparams=")
          /\ StartsWithAt(text, b + 1, "&rwebid=")
          /\ c >= b + 1 + Len("&rwebid=")
          /\ StartsWithAt(text, c + 1, "&rhost=")
          /\ d <= Len(text) /\ Char(text, d) \in Digit
          /\ StartsWithAt(text, d + 1,
                "\",customEvent:\"CollapsibleModule:expandSection\",jsModule:\"" \o label)
       THEN d ELSE 0

\* _get_ajax_url
AjaxUrlFrom(text, i, label) == "http://www.zillow.com" \o SubSeq(text, i, AjaxGroupEnd(text, i, label))
AjaxUrlIn(text, starts, label) ==
    IF starts = {} THEN Raise("NullResultException") ELSE Ok(AjaxUrlFrom(text, Min(starts), label))
_get_ajax_url(soup, label) ==
    AjaxUrlIn(soup.text, {i \in 1..Len(soup.text) : AjaxGroupEnd(soup.text, i, label) > 0}, label)

\* The body of an ajax response, parsed:
\*   envelope  whether the body holds  { "html": "..." }
\*   table     None, or [tbody |-> None or List of rows], the first table of the fragment;
\*             a row is the sequence of its td, a td [text, span, contents]
\* _get_table_body
_get_table_body(response) ==
    LET html == get_raw_html(response) IN
    IF Raised(html) THEN html
    ELSE IF ~html.ok.envelope THEN Raise("AttributeError")
    ELSE IF IsNone(html.ok.table) THEN Raise("ValueError")
    ELSE Ok(html.ok.table.tbody)

\* one iteration of the loop of _get_price_history
PriceRow(cols) ==
    IF Len(cols) < 2 THEN Raise("IndexError")
    ELSE Ok(List(<<Str(cols[1].text), Str(cols[2].text),
                   IF Len(cols) < 3 \/ IsNone(cols[3].span) THEN None ELSE cols[3].span>>))

\* one iteration of the loop of _get_tax_history
TaxRow(cols) ==
    IF Len(cols) < 2 THEN Raise("IndexError")
    ELSE IF cols[2].contents = <<>> THEN Raise("IndexError")
    ELSE IF Len(cols) < 4 THEN Raise("IndexError")
    ELSE Ok(List(<<Str(cols[1].text), Str(cols[2].contents[1]), Str(cols[4].text)>>))

\* the rows loop of either history: data is the list built so far
RECURSIVE HistoryRows(_, _, _)
HistoryRows(data, rows, tax) ==
    IF rows = <<>> THEN Ok(List(data))
    ELSE LET row == IF tax THEN TaxRow(Head(rows)) ELSE PriceRow(Head(rows)) IN
         IF Raised(row) THEN row ELSE HistoryRows(Append(data, row.ok), Tail(rows), tax)

\* table_body.find_all('tr') and the loop
TableRows(table_body, tax) ==
    IF IsNone(table_body) THEN Raise("AttributeError") ELSE HistoryRows(<<>>, table_body.list, tax)

_get_price_history(response) ==
    LET table_body == _get_table_body(response) IN
    IF Raised(table_body) THEN table_body ELSE TableRows(table_body.ok, FALSE)

\* _get_tax_history without the try of lines 247 to 250
_get_tax_history_no_except(response) ==
    LET table_body == _get_table_body(response) IN
    IF Raised(table_body) THEN table_body ELSE TableRows(table_body.ok, TRUE)

_get_tax_history(response) ==
    LET table_body == _get_table_body(response) IN
    IF Raised(table_body) THEN (IF table_body.raise = "ValueError" THEN Ok(List(<<>>)) ELSE table_body)
    ELSE TableRows(table_body.ok, TRUE)

(***************************************************************************)
(* The field extractors as scrape_url runs them (lines 295 to 301)         *)
(***************************************************************************)
\* the record after the extractors, or the first exception one of them raises
Merge(summary, facts, sale, description, photos, location) ==
    IF Raised(summary) THEN summary
    ELSE IF Raised(facts) THEN facts
    ELSE IF Raised(sale) THEN sale
    ELSE IF Raised(description) THEN description
    ELSE IF Raised(location) THEN location
    ELSE Ok(DictSet(DictSet(DictSet(DictUpdate(DictUpdate(summary.ok, facts.ok), sale.ok),
                 "description", description.ok),
                 "photos", photos),
                 "location_data", Dict(location.ok)))
Extractors(soup) ==
    Merge(_get_property_summary(soup), _parse_facts(_get_fact_list(soup)), _get_sale_info(soup),
          _get_description(soup), _get_photos(soup), _get_location_data(soup))

\* the except clauses of populate_price_and_tax_histories
Caught(r) == Raised(r) /\ r.raise = "NullResultException"

(***************************************************************************)
(* The pages and the responses the scraper is run on                       *)
(***************************************************************************)
PriceUrl == "/AjaxRender.htm?encparams=3~P-_=&rwebid=12&rhost=1"
TaxUrl == "/AjaxRender.htm?encparams=7~T-_=&rwebid=12&rhost=2"
\* the script text that holds the descriptor of an ajax module
Descriptor(url, label) ==
    "{ajaxURL:\"" \o url \o "\",customEvent:\"CollapsibleModule:expandSection\",jsModule:\"" \o label \o "\"}"

Urls == {None, Str(""), Str("http://www.zillow.com/homes/2101967478_zpid/"),
         Str("http://www.zillow.com/homedetails/2101967478/")}
Zpids == {None, Str("2101967478")}

Summaries == {None, Str("3 beds 2.5 baths 1,500 sqft 123 Main St San Jose, CA 95112"), Str("Studio")}
Descriptions == {None, Str("A nice home.")}
FactGroups == {<<>>,
               <<<<"Condo", "Built in 1925">>, <<"Lot: 5,000 sqft", "Has garage">>>>,
               <<<<"Built in the twenties">>>>,
               <<<<"Price History: see below", "Tax History: none">>>>}
HomeValues == {None, List(<<"For Sale", "$350,000", "Zestimate: $340,000">>)}
\* the photo list and the zestimate boxes of a page
Extras == {[titles |-> <<>>, values |-> <<>>, photos |-> <<>>],
           [titles |-> <<"Zestimate", "Zestimate rent">>, values |-> <<"$340,000", "$1,500/mo">>,
            photos |-> <<[href |-> None, src |-> Str("p1.jpg")], [href |-> None, src |-> None]>>]}
Locations == {[marker |-> None, coordinates |-> None],
              [marker |-> [comment |-> Str("[1,40123456,-74654321]")], coordinates |-> None],
              [marker |-> None,
               coordinates |-> Dict("data-latitude" :> "40.123456" @@ "data-longitude" :> "-74.654321")]}
Texts == {"", Descriptor(PriceUrl, PriceLabel), Descriptor(TaxUrl, TaxLabel),
          Descriptor(PriceUrl, PriceLabel) \o Descriptor(TaxUrl, TaxLabel)}

Soups ==
    {[prop_summary |-> a, description |-> b, fact_groups |-> c, home_value |-> d,
      zest_titles |-> e.titles, zest_values |-> e.values, photos |-> e.photos,
      marker |-> g.marker, coordinates |-> g.coordinates, text |-> h] :
        a \in Summaries, b \in Descriptions, c \in FactGroups, d \in HomeValues,
        e \in Extras, g \in Locations, h \in Texts}

Td(text) == [text |-> text, span |-> None, contents |-> <<text>>]
PriceTd(text) == [text |-> text, span |-> Str(text), contents |-> <<text>>]
Tables == {None, [tbody |-> None], [tbody |-> List(<<>>)],
           [tbody |-> List(<<<<Td("12/10/14"), Td("Sold"), PriceTd("$300,000"), Td("$310,000")>>>>)],
           [tbody |-> List(<<<<Td("2014"), Td("Listed")>>>>)]}

\* what request_class.get(u) can answer: a response with a body of the set Bodies, or a timeout
Responses(u, Bodies) ==
    {[timeout |-> TRUE]}
    \cup {[status_code |-> 404, url |-> u, content |-> None]}
    \cup {[status_code |-> OK, url |-> ZILLOW_HOMES_URL, content |-> None]}
    \cup {[status_code |-> OK, url |-> u, content |-> b] : b \in Bodies}

AjaxBodies == {[envelope |-> FALSE, table |-> None]} \cup {[envelope |-> TRUE, table |-> t] : t \in Tables}

(***************************************************************************)
(* scrape_url as a state machine.  One action for each stretch of code     *)
(* between two requests of the network.                                    *)
(*   pc         "start", "fetch", "extract", "price", "tax", "done"        *)
(*   url, zpid, get_price_and_tax_info   the arguments of the call         *)
(*   target     the address validate_scraper_input returned                *)
(*   responses  what each GET answered: page, price, tax (None: not issued)*)
(*   gets       the addresses of the GETs issued, in order                 *)
(*   soup       the parsed page                                            *)
(*   results    the record under construction                              *)
(*   before_history  the record as the extractors left it                  *)
(*   outcome    None while running, Raise(e), or [return |-> TRUE]         *)
(* The other variables hold the runs of _parse_facts, _get_sale_info and   *)
(* _get_location_data on their own (see further down).                     *)
(***************************************************************************)
VARIABLES pc, url, zpid, get_price_and_tax_info, target, responses, gets, soup, results,
          before_history, outcome,
          facts, fact_index, parsed_facts,
          rows, row_index, sale_info,
          loc_soup, loc_pc, lat, lon, location

scrapeVars == <<pc, url, zpid, get_price_and_tax_info, target, responses, gets, soup, results,
                before_history, outcome>>
factVars == <<facts, fact_index, parsed_facts>>
saleVars == <<rows, row_index, sale_info>>
locVars == <<loc_soup, loc_pc, lat, lon, location>>
vars == <<scrapeVars, factVars, saleVars, locVars>>

Returned == [return |-> TRUE]
NoResponses == [page |-> None, price |-> None, tax |-> None]

ScrapeIdle ==
    /\ pc = "idle" /\ url = None /\ zpid = None /\ get_price_and_tax_info = FALSE
    /\ target = None /\ responses = NoResponses /\ gets = <<>> /\ soup = None
    /\ results = None /\ before_history = None /\ outcome = None
FactsIdle == facts = <<>> /\ fact_index = 0 /\ parsed_facts = None
SaleIdle == rows = <<>> /\ row_index = 0 /\ sale_info = None
LocIdle == loc_soup = None /\ loc_pc = "idle" /\ lat = None /\ lon = None /\ location = None

Init ==
    /\ pc = "start" /\ url = None /\ zpid = None /\ get_price_and_tax_info = FALSE
    /\ target = None /\ responses = NoResponses /\ gets = <<>> /\ soup = None
    /\ results = None /\ before_history = None /\ outcome = None
    /\ FactsIdle /\ SaleIdle /\ LocIdle

\* scrape_url is called: line 293
Call(u, z, g) ==
    /\ pc = "start"
    /\ url' = u /\ zpid' = z /\ get_price_and_tax_info' = g
    /\ LET v == validate_scraper_input(u, z) IN
       IF Raised(v) THEN outcome' = v /\ pc' = "done" /\ target' = target
       ELSE outcome' = outcome /\ pc' = "fetch" /\ target' = Str(v.ok)
    /\ UNCHANGED <<responses, gets, soup, results, before_history, factVars, saleVars, locVars>>

\* the GET of the page and its parse: line 294
FetchPage ==
    /\ pc = "fetch"
    /\ \E response \in Responses(target.str, Soups) :
        /\ responses' = [responses EXCEPT !.page = response]
        /\ gets' = Append(gets, target.str)
        /\ LET html == get_raw_html(response) IN
           IF Raised(html) THEN outcome' = html /\ pc' = "done" /\ soup' = soup
           ELSE outcome' = outcome /\ pc' = "extract" /\ soup' = html.ok
    /\ UNCHANGED <<url, zpid, get_price_and_tax_info, target, results, before_history,
                   factVars, saleVars, locVars>>

\* the extractors, and the return when no history is asked for: lines 295 to 304
Extract ==
    /\ pc = "extract"
    /\ \E r \in {Extractors(soup)} :
       IF Raised(r) THEN outcome' = r /\ pc' = "done" /\ UNCHANGED <<results, before_history>>
       ELSE /\ results' = r.ok
            /\ before_history' = r.ok
            /\ IF get_price_and_tax_info THEN outcome' = outcome /\ pc' = "price"
               ELSE outcome' = Returned /\ pc' = "done"
    /\ UNCHANGED <<url, zpid, get_price_and_tax_info, target, responses, gets, soup,
                   factVars, saleVars, locVars>>

\* the first try block of populate_price_and_tax_histories: lines 265 to 271
PriceHistory ==
    /\ pc = "price"
    /\ \E history_url \in {_get_ajax_url(soup, PriceLabel)} :
       IF Caught(history_url)
       THEN pc' = "tax" /\ UNCHANGED <<responses, gets, results, outcome>>
       ELSE \E response \in Responses(history_url.ok, AjaxBodies) :
            /\ responses' = [responses EXCEPT !.price = response]
            /\ gets' = Append(gets, history_url.ok)
            /\ \E h \in {_get_price_history(response)} :
               IF Caught(h) THEN pc' = "tax" /\ UNCHANGED <<results, outcome>>
               ELSE IF Raised(h) THEN outcome' = h /\ pc' = "done" /\ results' = results
               ELSE results' = DictSet(results, "price_history", h.ok) /\ pc' = "tax" /\ outcome' = outcome
    /\ UNCHANGED <<url, zpid, get_price_and_tax_info, target, soup, before_history,
                   factVars, saleVars, locVars>>

\* the second try block, and the return of scrape_url: lines 272 to 278 and 304
TaxHistory ==
    /\ pc = "tax"
    /\ \E tax_url \in {_get_ajax_url(soup, TaxLabel)} :
       IF Caught(tax_url)
       THEN pc' = "done" /\ outcome' = Returned /\ UNCHANGED <<responses, gets, results>>
       ELSE \E response \in Responses(tax_url.ok, AjaxBodies) :
            /\ responses' = [responses EXCEPT !.tax = response]
            /\ gets' = Append(gets, tax_url.ok)
            /\ pc' = "done"
            /\ \E h \in {_get_tax_history(response)} :
               IF Caught(h) THEN outcome' = Returned /\ results' = results
               ELSE IF Raised(h) THEN outcome' = h /\ results' = results
               ELSE results' = DictSet(results, "tax_history", h.ok) /\ outcome' = Returned
    /\ UNCHANGED <<url, zpid, get_price_and_tax_info, target, soup, before_history,
                   factVars, saleVars, locVars>>

Next ==
    \/ \E u \in Urls, z \in Zpids, g \in BOOLEAN : Call(u, z, g)
    \/ FetchPage
    \/ Extract
    \/ PriceHistory
    \/ TaxHistory

Spec == Init /\ [][Next]_vars

(***************************************************************************)
(* _parse_facts on its own: one step for each iteration of its loop        *)
(*   facts         the texts of the facts given                            *)
(*   fact_index    how many of them the loop has taken                     *)
(*   parsed_facts  Ok(the dictionary so far), or the exception raised by   *)
(*                 the fact taken last                                     *)
(***************************************************************************)
MaxFacts == 2

FactTexts == {"Condo", "Built in 1925", "Built in 1925: renovated", "Built in the twenties",
              "3 days on Zillow", "Many days on Zillow", "Has garage", "Posted yesterday",
              "Posted: 5 days ago", "Posted: today", "Lot: 5,000 sqft", "MLS #: 12345",
              "Condo: yes", "Extras: pool"}

RECURSIVE Lists(_, _)
\* the lists of at most n elements of S
Lists(S, n) == IF n = 0 THEN {<<>>} ELSE Lists(S, n - 1) \cup {Append(l, x) : l \in Lists(S, n - 1), x \in S}

InitFacts ==
    /\ facts \in Lists(FactTexts, MaxFacts)
    /\ fact_index = 0
    /\ parsed_facts = Ok(EmptyDict)
    /\ ScrapeIdle /\ SaleIdle /\ LocIdle

ParseNextFact ==
    /\ fact_index < Len(facts)
    /\ ~Raised(parsed_facts)
    /\ fact_index' = fact_index + 1
    /\ parsed_facts' = ParseFact(parsed_facts.ok, facts[fact_index + 1])
    /\ UNCHANGED <<facts, scrapeVars, saleVars, locVars>>

NextFacts == ParseNextFact

SpecFacts == InitFacts /\ [][NextFacts]_vars

(***************************************************************************)
(* The rows loop of _get_sale_info on its own: one step for each row       *)
(*   rows       the texts of the home-summary-row rows                     *)
(*   row_index  how many of them the loop has taken                        *)
(*   sale_info  the dictionary so far                                      *)
(***************************************************************************)
MaxRows == 2

RowTexts == {"For Sale", "$350,000", "Zestimate: $340,000", "Rent Zestimate: $1,500/mo",
             "Sold on 12/10/14", "Sold: $300,000 For Sale", "Price cut: -$5,000 Off Market",
             "For Rent $1,500", "Zestimate For Sale", "Sold on", "Zestimate:", "Contact agent",
             "Zestimate $1 Sold: $2"}

InitSale ==
    /\ rows \in Lists(RowTexts, MaxRows)
    /\ row_index = 0
    /\ sale_info = NewSaleInfo
    /\ ScrapeIdle /\ FactsIdle /\ LocIdle

SaleNextRow ==
    /\ row_index < Len(rows)
    /\ row_index' = row_index + 1
    /\ sale_info' = SaleRow(sale_info, rows[row_index + 1])
    /\ UNCHANGED <<rows, scrapeVars, factVars, locVars>>

NextSale == SaleNextRow

SpecSale == InitSale /\ [][NextSale]_vars

(***************************************************************************)
(* _get_location_data on its own: the primary stage, then the fallback     *)
(*   loc_soup  the marker-data region and the fallback element of the page *)
(*   loc_pc    "primary", "fallback", "done"; it stays where an exception  *)
(*             left the function                                           *)
(*   lat, lon  the coordinates after the primary stage                     *)
(*   location  None while running, then Ok(the record) or the exception    *)
(***************************************************************************)
Comments == {"[1,40123456,-74654321]", "[0,-74654321]", "[40123456,0]", "[40123456,-74654321",
             "[abc,def]", "[40123456,x]", "[5]", "", "[7, 40123456 ,-7465\\4321\\]"}
Markers == {None, [comment |-> None]} \cup {[comment |-> Str(c)] : c \in Comments}
Coordinates ==
    {None,
     Dict("data-zpid" :> "2101967478"),
     Dict("data-latitude" :> "40.123456"),
     Dict("data-latitude" :> "40.123456" @@ "data-longitude" :> "-74.654321"),
     Dict("data-latitude" :> "40.123456" @@ "data-longitude" :> "-74.654321"
          @@ "data-direction" :> "/directions?addr=1+Main+St%2C+San+Jose+,CA+95112-1234&x=1"),
     Dict("data-latitude" :> "40.123456" @@ "data-longitude" :> "-74.654321"
          @@ "data-direction" :> "/directions?x=1")}

InitLoc ==
    /\ loc_soup \in {[marker |-> m, coordinates |-> c] : m \in Markers, c \in Coordinates}
    /\ loc_pc = "primary"
    /\ lat = None /\ lon = None /\ location = None
    /\ ScrapeIdle /\ FactsIdle /\ SaleIdle

\* lines 166 to 179
LocPrimary ==
    /\ loc_pc = "primary" /\ location = None
    /\ \E r \in {LocationPrimary(loc_soup)} :
        IF Raised(r) THEN location' = r /\ UNCHANGED <<loc_pc, lat, lon>>
        ELSE lat' = r.ok[1] /\ lon' = r.ok[2] /\ loc_pc' = "fallback" /\ location' = location
    /\ UNCHANGED <<loc_soup, scrapeVars, factVars, saleVars>>

\* lines 181 to 197
LocFallback ==
    /\ loc_pc = "fallback" /\ location = None
    /\ \E r \in {LocationFallback(loc_soup, lat, lon)} :
        /\ location' = r
        /\ loc_pc' = IF Raised(r) THEN loc_pc ELSE "done"
    /\ UNCHANGED <<loc_soup, lat, lon, scrapeVars, factVars, saleVars>>

NextLoc == LocPrimary \/ LocFallback

SpecLoc == InitLoc /\ [][NextLoc]_vars

(***************************************************************************)
(* The claims                                                              *)
(***************************************************************************)
\* what the claims call a GET that got an answer, and an answer get_raw_html refuses
Answered(r) == ~IsNone(r) /\ "status_code" \in DOMAIN r
Refused(r) == r.status_code # 200 \/ r.url = "http://www.zillow.com/homes/"

\* C1: validate_scraper_input raises ValueError when both url and zpid are given, when
\* neither is given, and when the url given does not hold the marker "homes"; in every
\* other case it returns the url unchanged or, with only a zpid, the template with the
\* zpid in it.  (Given: neither None nor empty.)
C1_Validation ==
    pc # "start" =>
        LET given_url == url \notin {None, Str("")}
            given_zpid == zpid \notin {None, Str("")}
        IN IF \/ given_url /\ given_zpid
              \/ ~given_url /\ ~given_zpid
              \/ given_url /\ ~Contains(url.str, "homes")
           THEN outcome = Raise("ValueError") /\ gets = <<>> /\ target = None
           ELSE /\ pc = "fetch" => outcome = None
                /\ target = IF given_url THEN url
                            ELSE Str("http://www.zillow.com/homes/" \o zpid.str \o "_zpid/(index)/")

\* a zpid alone was given and the template was returned
C1_Witness ==
    /\ pc = "fetch" /\ url = Str("") /\ zpid = Str("2101967478")
    /\ target = Str("http://www.zillow.com/homes/2101967478_zpid/(index)/")

\* C2: get_raw_html fails whenever the status is not OK, and whenever the status is OK
\* but the final address is the landing address; in exactly the remaining case it
\* returns the body.  Seen on the three GETs of scrape_url: a refused answer ends the
\* call with the error of get_raw_html, an accepted page is the one parsed, and that
\* error is raised for no other reason.
C2_Fetch ==
    /\ \A k \in {"page", "price", "tax"} :
         Answered(responses[k]) /\ Refused(responses[k]) => outcome = Raise("Exception") /\ pc = "done"
    /\ Answered(responses.page) /\ ~Refused(responses.page) => soup = responses.page.content
    /\ outcome = Raise("Exception") =>
         \E k \in {"page", "price", "tax"} : Answered(responses[k]) /\ Refused(responses[k])

\* the page was answered OK from the landing address, and the call failed
C2_Witness ==
    /\ Answered(responses.page) /\ responses.page.status_code = 200
    /\ responses.page.url = "http://www.zillow.com/homes/"
    /\ outcome = Raise("Exception") /\ soup = None

\* C3: for every document that misses the property summary or the description,
\* scrape_url fails with NullResultException and issues no GET but that of the page,
\* whatever the other regions hold.
C3_Claim ==
    pc = "done" /\ soup # None /\ (soup.prop_summary = None \/ soup.description = None)
        => outcome = Raise("NullResultException") /\ Len(gets) = 1

\* C4: for every document fetched that holds the property summary and the description,
\* scrape_url returns a record with a description that is not null and with the six
\* keys of the summary, whatever else the document holds.
C4_Claim ==
    pc = "done" /\ soup # None /\ soup.prop_summary # None /\ soup.description # None
        => /\ outcome = Returned
           /\ {"bedrooms", "bathrooms", "sqft", "city", "state", "zipcode", "description"}
                  \subseteq DOMAIN results
           /\ results["description"] # None

\* what the claims call a history GET that failed for want of a table, and one whose
\* rows were all read
NoTable(r) == Answered(r) /\ ~Refused(r) /\ r.content.envelope /\ r.content.table = None
RowsRead(r, columns) ==
    /\ Answered(r) /\ ~Refused(r) /\ r.content.envelope
    /\ r.content.table # None /\ r.content.table.tbody # None
    /\ \A i \in 1..Len(r.content.table.tbody.list) : Len(r.content.table.tbody.list[i]) >= columns

\* C5: with include_history set, every failure to find a descriptor and every failure
\* for want of a table, in either history, is caught: scrape_url still returns the
\* record with all the keys of the extractors.
C5_Claim ==
    /\ pc = "done" /\ get_price_and_tax_info /\ before_history # None
    /\ responses.price = None \/ NoTable(responses.price) \/ RowsRead(responses.price, 2)
    /\ responses.tax = None \/ NoTable(responses.tax) \/ RowsRead(responses.tax, 4)
    => outcome = Returned /\ DOMAIN before_history \subseteq DOMAIN results

\* C6 as stated: if the price history was fetched and the tax history then fails for
\* want of a table, the record returned still holds the price rows stored, and every
\* key the extractors wrote has the value it had before the history stage.
C6_Claim ==
    pc = "done" /\ RowsRead(responses.price, 2) /\ NoTable(responses.tax)
        => /\ outcome = Returned
           /\ "price_history" \in DOMAIN results
           /\ results["price_history"].list =
                 [i \in 1..Len(responses.price.content.table.tbody.list) |->
                    LET cols == responses.price.content.table.tbody.list[i] IN
                    List(<<Str(cols[1].text), Str(cols[2].text),
                           IF Len(cols) >= 3 THEN cols[3].span ELSE None>>)]
           /\ \A k \in DOMAIN before_history : results[k] = before_history[k]

\* C6 as amended: the same, for every key the extractors wrote other than
\* price_history and tax_history, which the history stage itself assigns.
C6_Isolation ==
    pc = "done" /\ RowsRead(responses.price, 2) /\ NoTable(responses.tax)
        => /\ outcome = Returned
           /\ "price_history" \in DOMAIN results
           /\ results["price_history"].list =
                 [i \in 1..Len(responses.price.content.table.tbody.list) |->
                    LET cols == responses.price.content.table.tbody.list[i] IN
                    List(<<Str(cols[1].text), Str(cols[2].text),
                           IF Len(cols) >= 3 THEN cols[3].span ELSE None>>)]
           /\ \A k \in DOMAIN before_history \ {"price_history", "tax_history"} :
                 results[k] = before_history[k]

\* price rows were stored, the tax answer had no table, and the record was returned
C6_Witness ==
    /\ pc = "done" /\ RowsRead(responses.price, 2) /\ NoTable(responses.tax)
    /\ responses.price.content.table.tbody.list # <<>>
    /\ outcome = Returned
    /\ results["tax_history"] = List(<<>>)
    /\ before_history["status"] = Str("For Sale")

\* C7: for any fact, exactly one of the six rules fires and completes without error,
\* the first in the order home_type, year, days_on_zillow, extras, posted, generic whose
\* condition the text satisfies.  On the fact taken last: no exception, and what the
\* first rule that applies stores is in the dictionary.
C7_Claim ==
    fact_index >= 1 =>
        LET text == facts[fact_index] IN
        /\ ~Raised(parsed_facts)
        /\ IF text \in HOME_TYPES THEN parsed_facts.ok["home_type"] = Str(text)
           ELSE IF Contains(text, "Built in") THEN "year" \in DOMAIN parsed_facts.ok
           ELSE IF Contains(text, "days on Zillow") THEN "days_on_zillow" \in DOMAIN parsed_facts.ok
           ELSE IF ~Contains(text, ":")
                THEN parsed_facts.ok["extras"].list[Len(parsed_facts.ok["extras"].list)] = Str(text)
           ELSE IF Contains(text, "Posted") THEN "posted" \in DOMAIN parsed_facts.ok
           ELSE FactKey(text) \in DOMAIN parsed_facts.ok

\* C8: whether the tax history is fetched, and what it stores, does not depend on how
\* the price history ended: once the extractors are through, the tax GET is issued
\* exactly when the page holds the tax descriptor.
C8_Claim ==
    pc = "done" /\ get_price_and_tax_info /\ before_history # None
        => (responses.tax # None <=> Contains(soup.text, Descriptor(TaxUrl, TaxLabel)))

\* C9: no error of the primary path gets out of _get_location_data (both coordinates
\* become null instead), and a coordinate is read from the fallback element exactly
\* when it is null after the primary stage: a coordinate the primary stage parsed, zero
\* included, is kept.
C9_Claim ==
    location # None /\ loc_soup.marker # None =>
        /\ loc_pc # "primary"
        /\ loc_pc = "done" =>
            /\ location.ok.latitude = IF lat # None THEN lat ELSE Str(loc_soup.coordinates.dict["data-latitude"])
            /\ location.ok.longitude = IF lon # None THEN lon ELSE Str(loc_soup.coordinates.dict["data-longitude"])

\* the field a labelled price is stored under: the label in lowercase, blanks to underscores
C10_Field ==
    [l \in {"Foreclosure Estimate", "Below Zestimate", "Rent Zestimate", "Zestimate",
            "Sold on", "Sold", "Price cut"} |->
        CASE l = "Foreclosure Estimate" -> "foreclosure_estimate"
          [] l = "Below Zestimate" -> "below_zestimate"
          [] l = "Rent Zestimate" -> "rent_zestimate"
          [] l = "Zestimate" -> "zestimate"
          [] l = "Sold on" -> "sold_on"
          [] l = "Sold" -> "sold"
          [] l = "Price cut" -> "price_cut"]

\* C10: each row of the pricing summary applies exactly one of three handlers, the
\* first that matches: a row with a labelled price sets only the field named by the
\* label, and neither status nor price, even if it also holds a status label or a bare
\* amount; otherwise a row with a status label sets only status; otherwise a row with a
\* bare amount sets only price; a row that matches none leaves the mapping unchanged.
C10_Handlers ==
    [][row_index' = row_index + 1 =>
        LET text == rows[row_index']
            labelled == FindPricing(text)
            only(k) == /\ DOMAIN sale_info' = DOMAIN sale_info \cup {k}
                       /\ \A x \in DOMAIN sale_info \ {k} : sale_info'[x] = sale_info[x]
        IN IF labelled # <<>>
           THEN /\ only(C10_Field[labelled[1]])
                /\ sale_info'[C10_Field[labelled[1]]] = Str(labelled[2])
                /\ sale_info'["status"] = sale_info["status"]
                /\ sale_info'["price"] = sale_info["price"]
           ELSE IF FindStatus(text) # ""
           THEN only("status") /\ sale_info'["status"] = Str(FindStatus(text))
           ELSE IF \E i \in 1..Len(text) : Char(text, i) \in Digit \cup {","}
           THEN only("price") /\ sale_info'["price"] = FindAmount(text)
           ELSE sale_info' = sale_info]_vars

\* a row with a labelled price and a status label was taken: the field of the label
\* is set and status is not
C10_Witness ==
    /\ row_index = 1
    /\ FindPricing(rows[1]) # <<>> /\ FindStatus(rows[1]) # ""
    /\ "sold" \in DOMAIN sale_info /\ sale_info["status"] = None /\ sale_info["price"] = None

====
